---------------------------- MODULE Spec2Model ----------------------------
(***************************************************************************)
(* TMReader: conversion of an SDLTM translation memory into a TMX 1.4     *)
(* document.                                                               *)
(*                                                                         *)
(* Two revisions of the class are modelled:                                *)
(*   - the latest, promise based one (convert), specification Spec;        *)
(*   - the callback based ones (1.4.0 and 1.7.0), whose constructor starts *)
(*     a chain of sqlite3 callbacks, specification SpecCb.                 *)
(* The functions tmxDateString, parseContent and applyHeaderProperties are *)
(* also applied on their own to bounded sets of arguments, specification   *)
(* SpecFn.                                                                 *)
(*                                                                         *)
(* Strings that the code edits character by character (dates) are          *)
(* sequences of one-character strings; all other strings are atoms.        *)
(***************************************************************************)
EXTENDS Integers, Sequences, FiniteSets, TLC

VARIABLES
    pc,          \* position of the convert call in progress
    db,          \* this.db: which database the handle refers to, and whether it is open
    openSources, \* number of open connections to a source database (bookkeeping)
    tmx,         \* this.tmx
    header,      \* this.header
    file,        \* the file at the output path: whether it exists, and its content
    count,       \* local count of writeTranslationUnits
    entry,       \* local entry of writeTranslationUnits: the iterator's current result
    tu,          \* the tu element built for the current row, before it is appended
    result,      \* how the promise returned by convert settled
    caught,      \* the message of the error caught by convert's catch clause
    failure,     \* messages of the exceptions thrown in this call, in order (bookkeeping)
    table,       \* rows the iterator has delivered in this call (bookkeeping)
    tableDone,   \* the iterator has reported done: table is the whole table
    tmRows,      \* what the translation_memories query returned in this call
    writes,      \* blocks appended to the output in this call (bookkeeping)
    calls,       \* number of convert calls started on this reader
    existing,    \* kinds of the blocks at the output path when this call began (bookkeeping)
    cbPc,        \* callback revisions: position in the callback chain
    cbRev,       \* callback revisions: which revision runs
    cbHeader,    \* callback revisions: this.header
    cbFile,      \* callback revisions: content of the output file
    cbCalls,     \* callback revisions: results passed to the caller's callback, in order
    cbRows,      \* callback revisions: rows db.each has delivered to the row callback
    cbFailed,    \* callback revisions: failures met while rows were processed
    cbUncaught,  \* callback revisions: exceptions that escaped a sqlite3 callback
    fnPc,        \* functions on their own: which function is applied, and how far
    fnArg,       \* functions on their own: the argument
    fnOut        \* functions on their own: the value returned or the exception thrown

vars == <<pc, db, openSources, tmx, header, file, count, entry, tu, result,
          caught, failure, table, tableDone, tmRows, writes, calls, existing,
          cbPc, cbRev, cbHeader, cbFile, cbCalls, cbRows, cbFailed, cbUncaught,
          fnPc, fnArg, fnOut>>

convVars == <<pc, db, openSources, tmx, header, file, count, entry, tu, result,
              caught, failure, table, tableDone, tmRows, writes, calls, existing>>

cbVars == <<cbPc, cbRev, cbHeader, cbFile, cbCalls, cbRows, cbFailed, cbUncaught>>

fnVars == <<fnPc, fnArg, fnOut>>

---------------------------------------------------------------------------
(* Bounds of the model *)

MaxRows == 2     \* rows a translation_units table holds at most
MaxCalls == 2    \* convert calls made on one reader
MaxNodes == 4    \* nodes an Elements container holds at most, when parseContent is applied on its own
MaxAttrRows == 3 \* rows the attributes query returns at most, when applyHeaderProperties is applied on its own

---------------------------------------------------------------------------
(* Values *)

Absent == "<undefined>"      \* getChild found no such child / JS undefined
SUCCESS == "Success"
ERROR == "Error"
OutPath == "out.tmx"
Memory == ":memory:"
ProductName == "sdltm"
Version == "2.0.0"

\* 'YYYY-MM-DD HH:MM:SS' dates, as character sequences
Date1 == <<"2","0","2","3","-","0","5","-","0","1"," ","1","0",":","2","0",":","3","0">>
Date2 == <<"1","9","9","9","-","1","2","-","3","1"," ","2","3",":","5","9",":","5","9">>
EmptyString == <<>>

\* a column that is NULL in the database: null in the row object
NullDate == <<"<null>">>
NullText == "<null>"

---------------------------------------------------------------------------
(* Date normalizer *)

\* String.prototype.indexOf for one character; 0 stands for JS's -1
IndexOf(s, c) ==
    IF \E i \in 1..Len(s) : s[i] = c
    THEN CHOOSE i \in 1..Len(s) : s[i] = c /\ \A j \in 1..(i-1) : s[j] # c
    ELSE 0

\* String.prototype.replace with a string pattern: the first occurrence only
ReplaceFirst(s, c, r) ==
    LET i == IndexOf(s, c)
    IN  IF i = 0 THEN s ELSE SubSeq(s, 1, i-1) \o r \o SubSeq(s, i+1, Len(s))

RECURSIVE RemoveAll(_, _)
RemoveAll(s, c) ==
    IF IndexOf(s, c) = 0 THEN s ELSE RemoveAll(ReplaceFirst(s, c, <<>>), c)

\* a normalizer whose replace calls are not repeated: one '-' and one ':' go
tmxDateStringOnce(date) ==
    ReplaceFirst(ReplaceFirst(ReplaceFirst(date, "-", <<>>), ":", <<>>), " ", <<"T">>) \o <<"Z">>

\* tmxDateString: the two while loops, then replace(' ', 'T') + 'Z'
tmxDateString(date) ==
    ReplaceFirst(RemoveAll(RemoveAll(date, "-"), ":"), " ", <<"T">>) \o <<"Z">>

---------------------------------------------------------------------------
(* XML values: elements of the typesxml object model *)

NoAttrs == <<>>

\* an XMLElement: its name, attribute map and child nodes
Elem(name, attrs, content) ==
    [name |-> name, attrs |-> attrs, text |-> "", content |-> content]

\* a TextNode
TextNode(v) == [name |-> "#text", attrs |-> NoAttrs, text |-> v, content |-> <<>>]

(* The micro-XML of a segment field.  A content node of the Elements       *)
(* container is described by its element name and by the text of each of   *)
(* the children the mapper looks up (Absent when there is no such child);  *)
(* name "#text" is a node that is not an element (character data).         *)
Node(name, value, type, anchor, align, tagId) ==
    [name |-> name, Value |-> value, Type |-> type, Anchor |-> anchor,
     AlignmentAnchor |-> align, TagID |-> tagId]

TextEl(v) == Node("Text", v, Absent, Absent, Absent, Absent)
TagEl(type, anchor, align, tagId) == Node("Tag", Absent, type, anchor, align, tagId)
OtherEl == Node("Comment", "note", Absent, Absent, Absent, Absent)
CharData == Node("#text", " ", Absent, Absent, Absent, Absent)

(* The text of a segment field: whether the parser accepts it, and the     *)
(* tree it describes: the children of the root that are present, the text  *)
(* of CultureName and the content of Elements.                             *)
Segment(form, children, culture, elements) ==
    [form |-> form, children |-> children, CultureName |-> culture, Elements |-> elements]

Both == {"CultureName", "Elements"}

---------------------------------------------------------------------------
(* Micro-XML segment decoder *)

\* XMLUtils.validXml10Chars on one character-data value: characters outside
\* the XML 1.0 range are dropped
ValidXml10Value(v) == IF v = "wor<U+0001>ld" THEN "world" ELSE v

validXml10Chars(text) ==
    [text EXCEPT !.Elements =
        [k \in DOMAIN text.Elements |->
            [text.Elements[k] EXCEPT !.Value = ValidXml10Value(text.Elements[k].Value)]]]

(* toElement: "throw" when parseString throws on text that is not well     *)
(* formed, "undefined" when the builder holds no document after the parse, *)
(* "root" with the root element otherwise.                                 *)
toElement(text) ==
    LET clean == validXml10Chars(text)
    IN  CASE clean.form = "malformed" -> [outcome |-> "throw", root |-> clean]
          [] clean.form = "nodocument" -> [outcome |-> "undefined", root |-> clean]
          [] OTHER -> [outcome |-> "root", root |-> clean]

\* XMLElement.getChild on a segment root
HasChild(root, name) == name \in root.children

---------------------------------------------------------------------------
(* Inline-content mapper *)

Mapped(content) == [ok |-> TRUE, error |-> "", content |-> content]
Thrown(message) == [ok |-> FALSE, error |-> message, content |-> <<>>]

MapNodeChecked(node) ==
    IF node.name = "#text" THEN Mapped(<<>>)
    ELSE IF node.name = "Text" THEN
        IF node.Value = Absent THEN Thrown("Text element without Value child")
        ELSE Mapped(<<TextNode(node.Value)>>)
    ELSE IF node.name = "Tag" THEN
        IF node.Type = Absent THEN Thrown("Tag element without Type child")
        ELSE IF node.Type = "Start" THEN
            IF node.Anchor = Absent THEN Thrown("Start Tag element without Anchor child")
            ELSE IF node.AlignmentAnchor = Absent
                THEN Thrown("Start Tag element without AlignmentAnchor child")
            ELSE IF node.TagID = Absent THEN Thrown("Start Tag element without TagID child")
            ELSE Mapped(<<Elem("bpt", [i |-> node.Anchor, x |-> node.AlignmentAnchor,
                                        type |-> node.TagID], <<>>)>>)
        ELSE IF node.Type = "End" THEN
            IF node.Anchor = Absent THEN Thrown("End Tag element without Anchor child")
            ELSE Mapped(<<Elem("ept", [i |-> node.Anchor], <<>>)>>)
        ELSE
            IF node.AlignmentAnchor = Absent
                THEN Thrown("Standalone Tag element without AlignmentAnchor child")
            ELSE IF node.TagID = Absent
                THEN Thrown("Standalone Tag element without TagID child")
            ELSE Mapped(<<Elem("ph", [x |-> node.AlignmentAnchor, type |-> node.TagID], <<>>)>>)
    ELSE Mapped(<<>>)

\* a mapper that skips a Text element without Value instead of throwing
MapNodeLenient(node) ==
    IF node.name = "Text" /\ node.Value = Absent THEN Mapped(<<>>) ELSE MapNodeChecked(node)

\* a mapper that takes every Tag that is not an End tag for a Start tag
MapNodePaired(node) ==
    IF node.name = "Tag" /\ node.Type \notin {Absent, "Start", "End"}
    THEN MapNodeChecked([node EXCEPT !.Type = "Start"])
    ELSE MapNodeChecked(node)

\* the body of the forEach callback of parseContent, for one node
MapNode(node) == MapNodeChecked(node)

\* a loop that puts what it maps in front of what it has
RECURSIVE parseContentReversed(_, _, _)
parseContentReversed(nodes, k, acc) ==
    IF k > Len(nodes) THEN Mapped(acc)
    ELSE LET r == MapNode(nodes[k])
         IN  IF r.ok THEN parseContentReversed(nodes, k + 1, r.content \o acc)
             ELSE Thrown(r.error)

RECURSIVE parseContentFrom(_, _, _)
parseContentFrom(nodes, k, acc) ==
    IF k > Len(nodes) THEN Mapped(acc)
    ELSE LET r == MapNode(nodes[k])
         IN  IF r.ok THEN parseContentFrom(nodes, k + 1, acc \o r.content)
             ELSE Thrown(r.error)

\* parseContent(element): the content of the seg, or the exception thrown
parseContent(elements) == parseContentFrom(elements, 1, <<>>)

---------------------------------------------------------------------------
(* Database rows *)

TMRow(lang, user, date) ==
    [source_language |-> lang, creation_user |-> user, creation_date |-> date]

AttributeRow(name, type, value) == [name |-> name, type |-> type, value |-> value]

TURow(id, source, target, changeDate, changeUser, usedDate, usedUser, usage) ==
    [id |-> id, source_segment |-> source, target_segment |-> target,
     creation_date |-> Date1, creation_user |-> "alice",
     change_date |-> changeDate, change_user |-> changeUser,
     last_used_date |-> usedDate, last_used_user |-> usedUser,
     usage_counter |-> usage]

---------------------------------------------------------------------------
(* Header builder *)

createHeader ==
    Elem("header",
         [creationtool |-> ProductName, creationtoolversion |-> Version,
          adminlang |-> "en-US", segtype |-> "sentence", datatype |-> "unknown"]
            @@ ("o-tmf" :> "SDLTM"),
         <<>>)

\* XMLElement.setAttribute
SetAttribute(el, name, value) == [el EXCEPT !.attrs = (name :> value) @@ el.attrs]

\* XMLElement.addElement and XMLElement.addString
AddNode(el, node) == [el EXCEPT !.content = Append(el.content, node)]

\* XMLElement.getText() is the empty string
TextIsEmpty(el) == \A k \in DOMAIN el.content : el.content[k].text = ""

\* the forEach of applyHeaderAttributes: every row overwrites the three attributes
RECURSIVE SetHeaderAttributes(_, _, _)
SetHeaderAttributes(h, rows, k) ==
    IF k > Len(rows) THEN h
    ELSE SetHeaderAttributes(
            SetAttribute(
                SetAttribute(
                    SetAttribute(h, "srclang", rows[k].source_language),
                    "creationdate", tmxDateString(rows[k].creation_date)),
                "creationid", rows[k].creation_user),
            rows, k + 1)

\* applyHeaderAttributes without the check for an empty result
applyHeaderAttributesUnchecked(h, rows) ==
    [ok |-> TRUE, error |-> "", header |-> SetHeaderAttributes(h, rows, 1)]

\* applyHeaderAttributes: the header, or the exception thrown
applyHeaderAttributes(h, rows) ==
    IF Len(rows) = 0
    THEN [ok |-> FALSE, error |-> "translation_memories table is empty", header |-> h]
    ELSE [ok |-> TRUE, error |-> "", header |-> SetHeaderAttributes(h, rows, 1)]

PropType(name) == <<"x-", name, ":MultplePicklist">>

\* position in the header of the prop that propertiesMap holds for name, or 0
PropIndex(h, name) ==
    IF \E k \in DOMAIN h.content : h.content[k].attrs.type = PropType(name)
    THEN CHOOSE k \in DOMAIN h.content : h.content[k].attrs.type = PropType(name)
    ELSE 0

\* a loop body without the test row.type === 5
AddPropertyAnyType(h, row) ==
    LET h1 == IF PropIndex(h, row.name) = 0
              THEN AddNode(h, Elem("prop", [type |-> PropType(row.name)], <<>>))
              ELSE h
        k == PropIndex(h1, row.name)
        prop == h1.content[k]
        sep == IF TextIsEmpty(prop) THEN prop ELSE AddNode(prop, TextNode(","))
    IN  [h1 EXCEPT !.content[k] = AddNode(sep, TextNode(row.value))]

\* the body of the forEach of applyHeaderProperties for one row
AddProperty(h, row) ==
    IF row.type # 5 THEN h
    ELSE LET h1 == IF PropIndex(h, row.name) = 0
                   THEN AddNode(h, Elem("prop", [type |-> PropType(row.name)], <<>>))
                   ELSE h
             k == PropIndex(h1, row.name)
             prop == h1.content[k]
             sep == IF TextIsEmpty(prop) THEN prop ELSE AddNode(prop, TextNode(","))
         IN  [h1 EXCEPT !.content[k] = AddNode(sep, TextNode(row.value))]

RECURSIVE applyHeaderPropertiesFrom(_, _, _)
applyHeaderPropertiesFrom(h, rows, k) ==
    IF k > Len(rows) THEN h
    ELSE applyHeaderPropertiesFrom(AddProperty(h, rows[k]), rows, k + 1)

applyHeaderProperties(h, rows) == applyHeaderPropertiesFrom(h, rows, 1)

---------------------------------------------------------------------------
(* Translation unit builder: the body of the loop of writeTranslationUnits *)
(* up to the append                                                        *)

Built(el) == [ok |-> TRUE, error |-> "", tu |-> el]
Failed(message) == [ok |-> FALSE, error |-> message, tu |-> Elem("tu", NoAttrs, <<>>)]

(* The attributes and the prop of the tu, from the columns of the row;     *)
(* counted is the outcome of the test on usageCount.                       *)
TuMetadataWith(row, counted) ==
    LET changeDate == tmxDateString(row.change_date)
        attrs ==
            (IF counted
                THEN "usagecount" :> row.usage_counter ELSE NoAttrs)
            @@ (IF row.last_used_date # EmptyString
                THEN "lastusagedate" :> tmxDateString(row.last_used_date) ELSE NoAttrs)
            @@ (IF row.change_user # "" THEN "changeid" :> row.change_user ELSE NoAttrs)
            @@ (IF changeDate # EmptyString THEN "changedate" :> changeDate ELSE NoAttrs)
            @@ ("creationdate" :> tmxDateString(row.creation_date))
            @@ ("creationid" :> row.creation_user)
        props ==
            IF row.last_used_user # ""
            THEN <<Elem("prop", [type |-> <<"x-LastUsedBy">>], <<TextNode(row.last_used_user)>>)>>
            ELSE <<>>
    IN  Elem("tu", attrs, props)

\* a test on usageCount that lets '0' through
TuMetadataCounting(row) ==
    TuMetadataWith(row, row.usage_counter \notin {"", NullText})

\* usageCount && usageCount !== '0'
TuMetadata(row) ==
    TuMetadataWith(row, row.usage_counter \notin {"", NullText} /\ row.usage_counter # "0")

\* a tuv without its xml:lang attribute
TuvUntagged(lang, content) ==
    Elem("tuv", NoAttrs, <<Elem("seg", NoAttrs, content)>>)

Tuv(lang, content) ==
    Elem("tuv", "xml:lang" :> lang, <<Elem("seg", NoAttrs, content)>>)

\* tmxDateString(null): date.indexOf on null
NullDateError == "Cannot read properties of null (reading 'indexOf')"

buildTu(row) ==
    LET source == toElement(row.source_segment)
        target == toElement(row.target_segment)
        meta == TuMetadata(row)
        srcSeg == parseContent(source.root.Elements)
        tgtSeg == parseContent(target.root.Elements)
    IN  IF source.outcome = "throw" THEN Failed("XML parse error")
        ELSE IF source.outcome = "undefined" THEN Failed("Cannot parse source segment")
        ELSE IF target.outcome = "throw" THEN Failed("XML parse error")
        ELSE IF target.outcome = "undefined" THEN Failed("Cannot parse target segment")
        ELSE IF NullDate \in {row.creation_date, row.change_date, row.last_used_date}
            THEN Failed(NullDateError)
        ELSE IF ~HasChild(source.root, "CultureName")
            THEN Failed("Source segment without CultureName child")
        ELSE IF ~HasChild(source.root, "Elements")
            THEN Failed("Source segment without Elements child")
        ELSE IF ~srcSeg.ok THEN Failed(srcSeg.error)
        ELSE IF ~HasChild(target.root, "CultureName")
            THEN Failed("Target segment without CultureName child")
        ELSE IF ~HasChild(target.root, "Elements")
            THEN Failed("Target segment without Elements child")
        ELSE IF ~tgtSeg.ok THEN Failed(tgtSeg.error)
        ELSE Built(AddNode(AddNode(meta, Tuv(source.root.CultureName, srcSeg.content)),
                           Tuv(target.root.CultureName, tgtSeg.content)))

---------------------------------------------------------------------------
(* Sample data *)

GoodSource ==
    Segment("wellformed", Both, "en-US",
            <<TextEl("Hello "), TagEl("Start", "1", "10", "100"),
              TextEl("wor<U+0001>ld"), TagEl("End", "1", Absent, Absent)>>)

GoodTarget ==
    Segment("wellformed", Both, "fr-FR",
            <<TextEl("Bonjour"), CharData, TagEl("Standalone", Absent, "5", "200"), OtherEl>>)

WithNode(node) == Segment("wellformed", Both, "en-US", <<TextEl("a"), node>>)

\* segments with a structural error
BadSegments ==
    { Segment("malformed", Both, "en-US", <<>>),
      Segment("nodocument", Both, "en-US", <<>>),
      Segment("wellformed", {"Elements"}, "", <<TextEl("a")>>),
      Segment("wellformed", {"CultureName"}, "en-US", <<>>),
      WithNode(TextEl(Absent)),
      WithNode(TagEl(Absent, "1", "10", "100")),
      WithNode(TagEl("Start", Absent, "10", "100")),
      WithNode(TagEl("Start", "1", Absent, "100")),
      WithNode(TagEl("Start", "1", "10", Absent)),
      WithNode(TagEl("End", Absent, Absent, Absent)),
      WithNode(TagEl("Standalone", "1", Absent, "200")),
      WithNode(TagEl("", "1", "5", Absent)) }

\* the errors looked for on the target side too
BadTargets ==
    { Segment("malformed", Both, "fr-FR", <<>>),
      Segment("wellformed", {"Elements"}, "", <<TextEl("a")>>),
      Segment("wellformed", {"CultureName"}, "fr-FR", <<>>),
      WithNode(TextEl(Absent)) }

Row1 == TURow(1, GoodSource, GoodTarget, Date2, "bob", Date2, "carol", "5")
Row2 == TURow(2, GoodTarget, GoodSource, EmptyString, "", EmptyString, "", "0")

GoodRows == {Row1, Row2}

BadRows ==
    { TURow(3, s, GoodTarget, EmptyString, "", EmptyString, "", "") : s \in BadSegments }
    \cup { TURow(4, GoodSource, t, EmptyString, "", EmptyString, "", "") : t \in BadTargets }

RowSamples == GoodRows \cup BadRows

\* rows for the callback based revisions: one row for each way the row
\* callback can end
CbRowSamples ==
    GoodRows \cup
    { TURow(3, s, GoodTarget, EmptyString, "", EmptyString, "", "") :
        s \in { Segment("malformed", Both, "en-US", <<>>),
                Segment("nodocument", Both, "en-US", <<>>),
                Segment("wellformed", {"Elements"}, "", <<TextEl("a")>>),
                WithNode(TextEl(Absent)) } }

TmSamples ==
    { <<>>,
      <<TMRow("en-US", "admin", Date1)>>,
      <<TMRow("en-US", "admin", Date1), TMRow("de-DE", "root", Date2)>> }

\* results of the attributes query, which orders by name
AttrSamples ==
    { <<>>,
      <<AttributeRow("Client", 5, "v1"), AttributeRow("Client", 5, "v3"),
        AttributeRow("Domain", 1, "x"), AttributeRow("Status", 5, "v2")>> }

---------------------------------------------------------------------------
(* The output file *)

Block(kind, xml) == [kind |-> kind, xml |-> xml]
NoXml == Elem("", NoAttrs, <<>>)
ClosingBlock == Block("closing", NoXml)     \* '  </body>\n</tmx>'
StaleBlock == Block("stale", NoXml)         \* content written before this reader existed

NoSuchFile == [exists |-> FALSE, content |-> <<>>]

\* writeFileSync, which replaces the content
writeFileSync(f, block) == [exists |-> TRUE, content |-> <<block>>]

\* a write that puts the block in front of the content
prependFileSync(f, block) == [exists |-> TRUE, content |-> <<block>> \o f.content]

\* appendFileSync: the file is created when it does not exist
appendFileSync(f, block) == [exists |-> TRUE, content |-> Append(f.content, block)]

---------------------------------------------------------------------------
(* The latest revision: convert *)

NotQueried == [queried |-> FALSE, rows |-> <<>>, attributes |-> <<>>]
Queried(rows) == [queried |-> TRUE, rows |-> rows, attributes |-> <<>>]
QueriedBoth(rows, attributes) == [queried |-> TRUE, rows |-> rows, attributes |-> attributes]
Pending == [status |-> "pending", count |-> 0, reason |-> ""]
MemoryDb == [name |-> Memory, open |-> TRUE]

\* no function is applied on its own
NoFunction == fnPc = "none" /\ fnArg = <<>> /\ fnOut = <<>>

\* no callback based reader exists
NoCallbackReader ==
    /\ cbPc = "unused"
    /\ cbRev = "none"
    /\ cbHeader = createHeader
    /\ cbFile = NoSuchFile
    /\ cbCalls = <<>>
    /\ cbRows = <<>>
    /\ cbFailed = <<>>
    /\ cbUncaught = 0

\* the state the constructor leaves; a file may exist at the output path
Init ==
    /\ pc = "idle"
    /\ db = MemoryDb
    /\ openSources = 0
    /\ tmx = ""
    /\ header = createHeader
    /\ file \in {NoSuchFile, appendFileSync(NoSuchFile, StaleBlock)}
    /\ count = 0
    /\ entry = <<>>
    /\ tu = <<>>
    /\ result = Pending
    /\ caught = ""
    /\ failure = <<>>
    /\ table = <<>>
    /\ tableDone = FALSE
    /\ tmRows = NotQueried
    /\ writes = <<>>
    /\ calls = 0
    /\ existing = <<>>
    /\ NoCallbackReader
    /\ NoFunction

\* an exception thrown inside the try block of convert
Throw(message) ==
    /\ pc' = "failed"
    /\ caught' = message
    /\ failure' = Append(failure, message)

\* DatabaseSync.close() wrapped in try/catch: closing a closed handle throws and
\* the error is dropped
CloseHandle(handle) == [handle EXCEPT !.open = FALSE]
SourcesAfterClose(handle, n) == IF handle.open /\ handle.name # Memory THEN n - 1 ELSE n

\* a convert that gives control back to its caller after the header is written
AwaitAfterHeader == {"headerWritten"}

\* the positions at which the body of convert awaits: it holds no await
AwaitPoints == {}

(* convert is entered and prepareOutput runs.  unlinkSync may throw; it is *)
(* outside the try block, so the promise is rejected at once.  removes is  *)
(* whether prepareOutput removes a file that exists at the output path,    *)
(* renews whether it replaces the header by a new one.  A call is entered  *)
(* when no call has been made, when the body of the previous call has run  *)
(* to its end, or when the previous call is suspended at an await.         *)
ConvertCallWith(removes, renews) ==
    /\ pc \in {"idle", "resolved", "rejected"} \cup AwaitPoints
    /\ calls < MaxCalls
    /\ calls' = calls + 1
    /\ existing' = [k \in DOMAIN file.content |-> file.content[k].kind]
    /\ count' = 0
    /\ entry' = <<>>
    /\ tu' = <<>>
    /\ table' = <<>>
    /\ tableDone' = FALSE
    /\ tmRows' = NotQueried
    /\ writes' = <<>>
    /\ caught' = ""
    /\ UNCHANGED <<db, openSources>>
    /\ UNCHANGED cbVars
    /\ UNCHANGED fnVars
    /\ \E unlinkOk \in BOOLEAN :
        IF file.exists /\ ~unlinkOk
        THEN /\ pc' = "rejected"
             /\ failure' = <<"unlink failed">>
             /\ result' = [status |-> "rejected", count |-> 0, reason |-> "unlink failed"]
             /\ UNCHANGED <<file, tmx, header>>
        ELSE /\ unlinkOk
             /\ pc' = "prepared"
             /\ failure' = <<>>
             /\ result' = Pending
             /\ file' = IF removes THEN NoSuchFile ELSE file
             /\ tmx' = OutPath
             /\ header' = IF renews THEN createHeader ELSE header

\* a prepareOutput that leaves an existing output file in place
ConvertCallKeeping == ConvertCallWith(FALSE, TRUE)

\* a prepareOutput that goes on with the header of the previous conversion
ConvertCallStaleHeader == ConvertCallWith(TRUE, FALSE)

ConvertCall == ConvertCallWith(TRUE, TRUE)

OpenError == "unable to open database file"

(* reopenDatabase: the handle is closed and a new one opened on sdltm.     *)
(* new DatabaseSync throws when the file cannot be opened; rethrows is     *)
(* whether that exception leaves reopenDatabase.                           *)
reopenDatabaseWith(rethrows) ==
    /\ pc = "prepared"
    /\ \E openOk \in BOOLEAN :
        IF openOk
        THEN /\ db' = [name |-> "source", open |-> TRUE]
             /\ openSources' = SourcesAfterClose(db, openSources) + 1
             /\ pc' = "opened"
             /\ UNCHANGED <<caught, failure>>
        ELSE /\ db' = CloseHandle(db)
             /\ openSources' = SourcesAfterClose(db, openSources)
             /\ IF rethrows
                THEN Throw(OpenError)
                ELSE /\ failure' = Append(failure, OpenError)
                     /\ pc' = "opened"
                     /\ UNCHANGED caught
    /\ UNCHANGED <<tmx, header, file, count, entry, tu, result, table, tableDone,
                   tmRows, writes, calls>>
    /\ UNCHANGED existing
    /\ UNCHANGED cbVars
    /\ UNCHANGED fnVars

\* a reopenDatabase that drops the exception of a failed open
reopenDatabaseSwallowing == reopenDatabaseWith(FALSE)

reopenDatabase == reopenDatabaseWith(TRUE)

(* populateHeader: the two queries and what they set in the header.  Either *)
(* query may throw (the file is no translation memory).                     *)
populateHeader ==
    /\ pc = "opened"
    /\ \E fault \in {"none", "memories", "attributes"}, tm \in TmSamples, at \in AttrSamples :
        LET r == applyHeaderAttributes(header, tm)
        IN  IF fault = "memories"
            THEN /\ tm = <<>> /\ at = <<>>
                 /\ Throw("no such table: translation_memories")
                 /\ UNCHANGED <<header, tmRows>>
            ELSE IF ~r.ok
            THEN /\ fault = "none" /\ at = <<>>
                 /\ Throw(r.error)
                 /\ tmRows' = Queried(tm)
                 /\ UNCHANGED header
            ELSE IF fault = "attributes"
            THEN /\ at = <<>>
                 /\ Throw("no such table: attributes")
                 /\ tmRows' = Queried(tm)
                 /\ header' = r.header
            ELSE /\ pc' = "populated"
                 /\ tmRows' = QueriedBoth(tm, at)
                 /\ header' = applyHeaderProperties(r.header, at)
                 /\ UNCHANGED <<caught, failure>>
    /\ UNCHANGED <<db, openSources, tmx, file, count, entry, tu, result, table,
                   tableDone, writes, calls>>
    /\ UNCHANGED existing
    /\ UNCHANGED cbVars
    /\ UNCHANGED fnVars

writeHeader ==
    /\ pc = "populated"
    /\ \E writeOk \in BOOLEAN :
        IF writeOk
        THEN /\ file' = appendFileSync(file, Block("header", header))
             /\ writes' = Append(writes, Block("header", header))
             /\ pc' = "headerWritten"
             /\ UNCHANGED <<caught, failure>>
        ELSE /\ Throw("write failed")
             /\ UNCHANGED <<file, writes>>
    /\ UNCHANGED <<db, openSources, tmx, header, count, entry, tu, result, table,
                   tableDone, tmRows, calls>>
    /\ UNCHANGED existing
    /\ UNCHANGED cbVars
    /\ UNCHANGED fnVars

(* iterator.next(): the next row of translation_units, the end of the table, *)
(* or a read error                                                           *)
Fetch ==
    \E outcome \in {"row", "done", "error"}, row \in RowSamples :
        CASE outcome = "row" ->
                /\ Len(table) < MaxRows
                /\ table' = Append(table, row)
                /\ entry' = <<row>>
                /\ pc' = "rowFetched"
                /\ UNCHANGED <<tableDone, caught, failure>>
          [] outcome = "done" ->
                /\ row = Row1
                /\ tableDone' = TRUE
                /\ entry' = <<>>
                /\ pc' = "exhausted"
                /\ UNCHANGED <<table, caught, failure>>
          [] OTHER ->
                /\ row = Row1
                /\ Throw("database disk image is malformed")
                /\ UNCHANGED <<table, tableDone, entry>>

\* writeTranslationUnits up to the loop: prepare, iterate and the first next();
\* at is the position of convert at which it is called
startBodyAt(at) ==
    /\ pc = at
    /\ \/ Fetch
       \/ /\ Throw("no such table: translation_units")
          /\ UNCHANGED <<table, tableDone, entry>>
    /\ UNCHANGED <<db, openSources, tmx, header, file, count, tu, result, tmRows,
                   writes, calls>>
    /\ UNCHANGED existing
    /\ UNCHANGED cbVars
    /\ UNCHANGED fnVars

\* a convert that streams the body before the header is written
startBodyEarly == startBodyAt("populated")

startBody == startBodyAt("headerWritten")

\* the loop body up to the append: decode both segments and build the tu
processRow ==
    /\ pc = "rowFetched"
    /\ LET r == buildTu(entry[1])
       IN  IF r.ok
           THEN /\ tu' = <<r.tu>>
                /\ pc' = "tuBuilt"
                /\ UNCHANGED <<caught, failure>>
           ELSE /\ Throw(r.error)
                /\ UNCHANGED tu
    /\ UNCHANGED <<db, openSources, tmx, header, file, count, entry, result, table,
                   tableDone, tmRows, writes, calls>>
    /\ UNCHANGED existing
    /\ UNCHANGED cbVars
    /\ UNCHANGED fnVars

(* The end of the loop body: append the tu, count it, ask for the next row. *)
(* increment is what is added to count; synchronous is whether the append   *)
(* has completed when the next row is asked for.                            *)
appendRowWith(increment, synchronous) ==
    /\ pc = "tuBuilt"
    /\ \/ /\ file' = IF synchronous THEN appendFileSync(file, Block("tu", tu[1])) ELSE file
          /\ writes' = IF synchronous THEN Append(writes, Block("tu", tu[1])) ELSE writes
          /\ count' = count + increment
          /\ tu' = <<>>
          /\ Fetch
       \/ /\ Throw("write failed")
          /\ UNCHANGED <<file, writes, count, tu, entry, table, tableDone>>
    /\ UNCHANGED <<db, openSources, tmx, header, result, tmRows, calls>>
    /\ UNCHANGED existing
    /\ UNCHANGED cbVars
    /\ UNCHANGED fnVars

\* a loop that forgets count += 1
appendRowUncounted == appendRowWith(0, TRUE)

\* a loop that goes on to the next row while the append is still outstanding
appendRowDeferred == appendRowWith(1, FALSE)

appendRow == appendRowWith(1, TRUE)

\* after the loop: the closing text, and count is returned
closeBody ==
    /\ pc = "exhausted"
    /\ \E writeOk \in BOOLEAN :
        IF writeOk
        THEN /\ file' = appendFileSync(file, ClosingBlock)
             /\ writes' = Append(writes, ClosingBlock)
             /\ pc' = "bodyClosed"
             /\ UNCHANGED <<caught, failure>>
        ELSE /\ Throw("write failed")
             /\ UNCHANGED <<file, writes>>
    /\ UNCHANGED <<db, openSources, tmx, header, count, entry, tu, result, table,
                   tableDone, tmRows, calls>>
    /\ UNCHANGED existing
    /\ UNCHANGED cbVars
    /\ UNCHANGED fnVars

\* the finally clause: the handle is closed and replaced by an in-memory one
resetDatabaseWith(closes) ==
    /\ pc \in {"bodyClosed", "failed"}
    /\ db' = MemoryDb
    /\ openSources' = IF closes THEN SourcesAfterClose(db, openSources) ELSE openSources
    /\ pc' = IF pc = "failed" THEN "rethrow" ELSE "return"
    /\ UNCHANGED <<tmx, header, file, count, entry, tu, result, caught, failure,
                   table, tableDone, tmRows, writes, calls>>
    /\ UNCHANGED existing
    /\ UNCHANGED cbVars
    /\ UNCHANGED fnVars

\* a finally clause that replaces the handle without closing it
resetDatabaseLeaking == resetDatabaseWith(FALSE)

resetDatabase == resetDatabaseWith(TRUE)

\* a convert whose catch clause swallows the error
settleSwallowing ==
    /\ pc \in {"return", "rethrow"}
    /\ result' = [status |-> SUCCESS, count |-> count, reason |-> ""]
    /\ pc' = "resolved"
    /\ UNCHANGED <<db, openSources, tmx, header, file, count, entry, tu, caught,
                   failure, table, tableDone, tmRows, writes, calls>>
    /\ UNCHANGED existing
    /\ UNCHANGED cbVars
    /\ UNCHANGED fnVars

\* a convert whose catch clause removes the partial output
settleCleaning ==
    /\ pc \in {"return", "rethrow"}
    /\ IF pc = "return"
       THEN /\ result' = [status |-> SUCCESS, count |-> count, reason |-> ""]
            /\ pc' = "resolved"
            /\ UNCHANGED file
       ELSE /\ result' = [status |-> "rejected", count |-> 0, reason |-> caught]
            /\ pc' = "rejected"
            /\ file' = NoSuchFile
    /\ UNCHANGED <<db, openSources, tmx, header, count, entry, tu, caught,
                   failure, table, tableDone, tmRows, writes, calls>>
    /\ UNCHANGED existing
    /\ UNCHANGED cbVars
    /\ UNCHANGED fnVars

\* the promise settles: return { status, count } or throw new Error(failureMessage)
settle ==
    /\ pc \in {"return", "rethrow"}
    /\ IF pc = "return"
       THEN /\ result' = [status |-> SUCCESS, count |-> count, reason |-> ""]
            /\ pc' = "resolved"
       ELSE /\ result' = [status |-> "rejected", count |-> 0, reason |-> caught]
            /\ pc' = "rejected"
    /\ UNCHANGED <<db, openSources, tmx, header, file, count, entry, tu, caught,
                   failure, table, tableDone, tmRows, writes, calls>>
    /\ UNCHANGED existing
    /\ UNCHANGED cbVars
    /\ UNCHANGED fnVars

Next ==
    \/ ConvertCall
    \/ reopenDatabase
    \/ populateHeader
    \/ writeHeader
    \/ startBody
    \/ processRow
    \/ appendRow
    \/ closeBody
    \/ resetDatabase
    \/ settle

Spec == Init /\ [][Next]_vars

---------------------------------------------------------------------------
(* The callback based revisions (1.4.0 and 1.7.0).  The constructor removes *)
(* an existing output file, creates the header and opens the database; the  *)
(* rest runs in the callbacks sqlite3 invokes.                              *)

Revisions == {"1.4.0", "1.7.0"}

\* a result handed to the caller's callback; phase tells which step handed it
CallbackResult(status, n, reason, phase) ==
    [status |-> status, count |-> n, reason |-> reason, phase |-> phase]

ReadError == "database disk image is malformed"

\* the failures the row callback of revision 1.7.0 reports through the callback
ReportedByRowCallback ==
    { "Cannot parse source segment", "Cannot parse target segment",
      "Source segment without CultureName child", "Source segment without Elements child",
      "Target segment without CultureName child", "Target segment without Elements child" }

(* What the row callback of parseDatabase does with a row: "appended" with *)
(* the tu, "reported" when it calls callback with status Error and returns, *)
(* "thrown" when an exception leaves it.  Revision 1.4.0 has no checks: a   *)
(* missing node is a TypeError on undefined.                                *)
rowCallback(rev, row) ==
    LET r == buildTu(row)
    IN  [outcome |-> IF r.ok THEN "appended"
                     ELSE IF rev = "1.7.0" /\ r.error \in ReportedByRowCallback
                          THEN "reported" ELSE "thrown",
         error |-> r.error,
         tu |-> r.tu]

ConvIdle ==
    /\ pc = "idle"
    /\ db = MemoryDb
    /\ openSources = 0
    /\ tmx = ""
    /\ header = createHeader
    /\ file = NoSuchFile
    /\ count = 0
    /\ entry = <<>>
    /\ tu = <<>>
    /\ result = Pending
    /\ caught = ""
    /\ failure = <<>>
    /\ table = <<>>
    /\ tableDone = FALSE
    /\ tmRows = NotQueried
    /\ writes = <<>>
    /\ calls = 0
    /\ existing = <<>>

\* the state the constructor leaves: the output removed, the open outstanding
InitCb ==
    /\ ConvIdle
    /\ cbPc = "opening"
    /\ cbRev \in Revisions
    /\ cbHeader = createHeader
    /\ cbFile = NoSuchFile
    /\ cbCalls = <<>>
    /\ cbRows = <<>>
    /\ cbFailed = <<>>
    /\ cbUncaught = 0
    /\ NoFunction

\* callback(result)
Callback(r) == cbCalls' = Append(cbCalls, r)

\* the callback of new sqlite3.Database
cbOpenDatabase ==
    /\ cbPc = "opening"
    /\ \E openOk \in BOOLEAN :
        IF openOk
        THEN /\ cbPc' = "headerAttributes"
             /\ UNCHANGED cbCalls
        ELSE /\ Callback(CallbackResult(ERROR, 0, "unable to open database file", "open"))
             /\ cbPc' = "stopped"
    /\ UNCHANGED <<cbRev, cbHeader, cbFile, cbRows, cbFailed, cbUncaught>>
    /\ UNCHANGED convVars
    /\ UNCHANGED fnVars

\* getHeaderAttributes: the row callbacks and the completion callback of db.each
cbGetHeaderAttributes ==
    /\ cbPc = "headerAttributes"
    /\ \E queryOk \in BOOLEAN, tm \in TmSamples :
        IF queryOk
        THEN /\ cbHeader' = SetHeaderAttributes(cbHeader, tm, 1)
             /\ cbPc' = "headerProperties"
             /\ UNCHANGED cbCalls
        ELSE /\ tm = <<>>
             /\ Callback(CallbackResult(ERROR, 0, "no such table: translation_memories", "header"))
             /\ cbPc' = "stopped"
             /\ UNCHANGED cbHeader
    /\ UNCHANGED <<cbRev, cbFile, cbRows, cbFailed, cbUncaught>>
    /\ UNCHANGED convVars
    /\ UNCHANGED fnVars

\* getHeaderProperties, whose completion callback calls writeHeader, which
\* appends the header and calls parseDatabase
cbGetHeaderProperties ==
    /\ cbPc = "headerProperties"
    /\ \E queryOk \in BOOLEAN, at \in AttrSamples :
        IF queryOk
        THEN /\ cbHeader' = applyHeaderProperties(cbHeader, at)
             /\ cbFile' = appendFileSync(cbFile, Block("header", cbHeader'))
             /\ cbPc' = "rows"
             /\ UNCHANGED cbCalls
        ELSE /\ at = <<>>
             /\ Callback(CallbackResult(ERROR, 0, "no such table: attributes", "header"))
             /\ cbPc' = "stopped"
             /\ UNCHANGED <<cbHeader, cbFile>>
    /\ UNCHANGED <<cbRev, cbRows, cbFailed, cbUncaught>>
    /\ UNCHANGED convVars
    /\ UNCHANGED fnVars

(* An exception leaves a callback that sqlite3 invoked: nobody catches it.  *)
(* The process ends, unless the application handles uncaughtException, and  *)
(* then sqlite3 goes on.                                                    *)
Uncaught(message) ==
    /\ cbFailed' = Append(cbFailed, message)
    /\ cbUncaught' = cbUncaught + 1
    /\ cbPc' \in {"crashed", "rows"}
    /\ UNCHANGED <<cbCalls, cbFile>>

\* the row callback of parseDatabase, invoked by db.each with the next row
cbRow ==
    /\ cbPc = "rows"
    /\ Len(cbRows) < MaxRows
    /\ \E row \in CbRowSamples, writeOk \in BOOLEAN :
        LET r == rowCallback(cbRev, row)
        IN  /\ cbRows' = Append(cbRows, row)
            /\ CASE r.outcome = "appended" /\ writeOk ->
                      /\ cbFile' = appendFileSync(cbFile, Block("tu", r.tu))
                      /\ UNCHANGED <<cbPc, cbCalls, cbFailed, cbUncaught>>
                 [] r.outcome = "appended" /\ ~writeOk -> Uncaught("write failed")
                 [] r.outcome = "reported" ->
                      /\ writeOk
                      /\ Callback(CallbackResult(ERROR, 0, r.error, "rows"))
                      /\ cbFailed' = Append(cbFailed, r.error)
                      /\ UNCHANGED <<cbPc, cbFile, cbUncaught>>
                 [] OTHER -> writeOk /\ Uncaught(r.error)
    /\ UNCHANGED <<cbRev, cbHeader>>
    /\ UNCHANGED convVars
    /\ UNCHANGED fnVars

(* The row callback of parseDatabase, invoked with an error: reading a row *)
(* failed and the statement is over.  1.7.0 reports it, 1.4.0 throws it.   *)
cbRowError ==
    /\ cbPc = "rows"
    /\ IF cbRev = "1.7.0"
       THEN /\ Callback(CallbackResult(ERROR, 0, ReadError, "rows"))
            /\ cbFailed' = Append(cbFailed, ReadError)
            /\ cbPc' = "readFailed"
            /\ UNCHANGED <<cbFile, cbUncaught>>
       ELSE /\ cbFailed' = Append(cbFailed, ReadError)
            /\ cbUncaught' = cbUncaught + 1
            /\ cbPc' \in {"crashed", "readFailed"}
            /\ UNCHANGED <<cbCalls, cbFile>>
    /\ UNCHANGED <<cbRev, cbHeader, cbRows>>
    /\ UNCHANGED convVars
    /\ UNCHANGED fnVars

(* The completion callback of parseDatabase.  After the last row sqlite3   *)
(* passes no error and the number of rows retrieved; after a read error it *)
(* passes either that or the error.                                        *)
cbComplete ==
    /\ cbPc \in {"rows", "readFailed"}
    /\ \E error \in BOOLEAN :
        IF error
        THEN /\ cbPc = "readFailed"
             /\ Callback(CallbackResult(ERROR, 0, ReadError, "complete"))
             /\ cbPc' = "stopped"
             /\ UNCHANGED cbFile
        ELSE /\ cbFile' = appendFileSync(cbFile, ClosingBlock)
             /\ cbPc' = "closing"
             /\ UNCHANGED cbCalls
    /\ UNCHANGED <<cbRev, cbHeader, cbRows, cbFailed, cbUncaught>>
    /\ UNCHANGED convVars
    /\ UNCHANGED fnVars

\* closeDb: the callback of db.close
cbCloseDb ==
    /\ cbPc = "closing"
    /\ \E closeOk \in BOOLEAN :
        IF closeOk
        THEN Callback(CallbackResult(SUCCESS, Len(cbRows), "", "close"))
        ELSE Callback(CallbackResult(ERROR, 0, "close failed", "close"))
    /\ cbPc' = "ended"
    /\ UNCHANGED <<cbRev, cbHeader, cbFile, cbRows, cbFailed, cbUncaught>>
    /\ UNCHANGED convVars
    /\ UNCHANGED fnVars

NextCb ==
    \/ cbOpenDatabase
    \/ cbGetHeaderAttributes
    \/ cbGetHeaderProperties
    \/ cbRow
    \/ cbRowError
    \/ cbComplete
    \/ cbCloseDb

SpecCb == InitCb /\ [][NextCb]_vars

---------------------------------------------------------------------------
(* The functions of the class applied on their own to arguments drawn from *)
(* bounded sets: tmxDateString, parseContent and applyHeaderProperties.    *)

Years == { <<"1","9","9","9">>, <<"2","0","2","3">> }
TwoDigits == { <<"0","1">>, <<"1","2">>, <<"5","9">> }

\* the text 'YYYY-MM-DD HH:MM:SS'
DateText(y, mo, d, h, mi, sec) ==
    y \o <<"-">> \o mo \o <<"-">> \o d \o <<" ">> \o h \o <<":">> \o mi \o <<":">> \o sec

DateTexts ==
    { DateText(y, mo, d, h, mi, sec) :
        y \in Years, mo \in {<<"0","1">>, <<"1","2">>}, d \in TwoDigits,
        h \in {<<"0","1">>, <<"1","2">>}, mi \in TwoDigits, sec \in {<<"0","1">>, <<"5","9">>} }

\* arguments of tmxDateString: dates, the empty string, a date without a time
DateSamples ==
    DateTexts \cup {Date1, Date2, EmptyString, <<"2","0","2","3","-","0","5","-","0","1">>}

\* content nodes of an Elements container
NodeSamples ==
    { TextEl("Hello "), TextEl("world"), TextEl(Absent),
      TagEl("Start", "1", "10", "100"),
      TagEl("End", "1", Absent, Absent), TagEl("End", Absent, Absent, Absent),
      TagEl("Standalone", Absent, "5", "200"), TagEl("", "7", "5", "200"),
      TagEl("Standalone", "1", Absent, "200"),
      OtherEl, CharData }

\* arguments of parseContent: the content of an Elements container
Containers == UNION { [1..n -> NodeSamples] : n \in 0..MaxNodes }

\* attribute names, in the order ORDER BY name gives them
AttrNames == <<"Client", "Status">>

AttrRowSamples ==
    { AttributeRow(AttrNames[n], t, v) : n \in DOMAIN AttrNames, t \in {1, 5}, v \in {"v1", "v2", ""} }

NameRank(name) == CHOOSE n \in DOMAIN AttrNames : AttrNames[n] = name

\* results of the attributes query: rows ordered by name
AttrResults ==
    { rows \in UNION { [1..n -> AttrRowSamples] : n \in 0..MaxAttrRows } :
        \A j, k \in DOMAIN rows : j < k => NameRank(rows[j].name) <= NameRank(rows[k].name) }

\* a ?? b
Nullish(a, b) == IF a \in {Absent, NullText} THEN b ELSE a

\* !value, for a string or undefined
Falsy(value) == value \in {Absent, NullText, ""}

(* The constructor of the latest revision up to the assignment of          *)
(* productName and version: the reader's configuration, or the exception.  *)
constructor(options, metadata) ==
    LET packageName == Nullish(options.productName, metadata.name)
        packageVersion == Nullish(options.version, metadata.version)
    IN  IF Falsy(packageName)
        THEN [ok |-> FALSE, error |-> "productName missing in options and package metadata",
              productName |-> Absent, version |-> Absent]
        ELSE IF Falsy(packageVersion)
        THEN [ok |-> FALSE, error |-> "version missing in options and package metadata",
              productName |-> Absent, version |-> Absent]
        ELSE [ok |-> TRUE, error |-> "", productName |-> packageName, version |-> packageVersion]

\* arguments of the constructor: the options, and the content of package.json
ConstructorArgs ==
    [options : [productName : {Absent, "", "MyTool"}, version : {Absent, "", "9.9"}],
     metadata : [name : {Absent, ProductName}, version : {Absent, Version}]]

\* arguments of the loop body of writeTranslationUnits: rows with valid
\* segments and every combination of optional columns
TuRowArgs ==
    { TURow(1, segs[1], segs[2], changeDate, changeUser, usedDate, usedUser, usage) :
        segs \in {<<GoodSource, GoodTarget>>, <<GoodTarget, GoodSource>>},
        changeDate \in {EmptyString, Date2, NullDate},
        changeUser \in {"", "bob"},
        usedDate \in {EmptyString, Date2, NullDate},
        usedUser \in {"", "carol"},
        usage \in {"", "0", "5", "007", NullText} }

InitFn ==
    /\ ConvIdle
    /\ NoCallbackReader
    /\ fnOut = <<>>
    /\ \/ fnPc = "date" /\ fnArg \in DateSamples
       \/ fnPc = "nodes" /\ fnArg \in Containers
       \/ fnPc = "rows" /\ fnArg \in AttrResults
       \/ fnPc = "row" /\ fnArg \in TuRowArgs
       \/ fnPc = "options" /\ fnArg \in ConstructorArgs

\* tmxDateString(date)
fnTmxDateString ==
    /\ fnPc = "date"
    /\ fnOut' = <<tmxDateString(fnArg)>>
    /\ fnPc' = "dated"
    /\ UNCHANGED fnArg
    /\ UNCHANGED convVars
    /\ UNCHANGED cbVars

\* tmxDateString applied to the string it returned
fnTmxDateStringAgain ==
    /\ fnPc = "dated"
    /\ fnOut' = Append(fnOut, tmxDateString(fnOut[1]))
    /\ fnPc' = "redated"
    /\ UNCHANGED fnArg
    /\ UNCHANGED convVars
    /\ UNCHANGED cbVars

\* parseContent(element)
fnParseContent ==
    /\ fnPc = "nodes"
    /\ fnOut' = parseContent(fnArg)
    /\ fnPc' = "mapped"
    /\ UNCHANGED fnArg
    /\ UNCHANGED convVars
    /\ UNCHANGED cbVars

\* applyHeaderProperties on the header createHeader returns
fnApplyHeaderProperties ==
    /\ fnPc = "rows"
    /\ fnOut' = applyHeaderProperties(createHeader, fnArg)
    /\ fnPc' = "props"
    /\ UNCHANGED fnArg
    /\ UNCHANGED convVars
    /\ UNCHANGED cbVars

\* the loop body of writeTranslationUnits up to the append, for one row
fnBuildTu ==
    /\ fnPc = "row"
    /\ fnOut' = buildTu(fnArg)
    /\ fnPc' = "built"
    /\ UNCHANGED fnArg
    /\ UNCHANGED convVars
    /\ UNCHANGED cbVars

\* new TMReader(options)
fnConstructor ==
    /\ fnPc = "options"
    /\ fnOut' = constructor(fnArg.options, fnArg.metadata)
    /\ fnPc' = "constructed"
    /\ UNCHANGED fnArg
    /\ UNCHANGED convVars
    /\ UNCHANGED cbVars

NextFn ==
    \/ fnConstructor
    \/ fnTmxDateString
    \/ fnTmxDateStringAgain
    \/ fnParseContent
    \/ fnApplyHeaderProperties
    \/ fnBuildTu

SpecFn == InitFn /\ [][NextFn]_vars

---------------------------------------------------------------------------
(* Properties of convert (specification Spec) *)

Kinds(content) == [k \in DOMAIN content |-> content[k].kind]
IsTu(block) == block.kind = "tu"
TuBlocks(content) == SelectSeq(content, IsTu)
Repeat(n, x) == [k \in 1..n |-> x]
Settled == pc \in {"resolved", "rejected"}

\* the last call of convert got past prepareOutput
OutputRemoved == calls > 0 /\ failure # <<"unlink failed">>

\* the phases that may follow a phase
PhaseSuccessors(p) ==
    CASE p \in {"idle", "resolved", "rejected"} -> {"prepared", "rejected"}
      [] p = "prepared" -> {"opened", "failed"}
      [] p = "opened" -> {"populated", "failed"}
      [] p = "populated" -> {"headerWritten", "failed"}
      [] p \in {"headerWritten", "tuBuilt"} -> {"rowFetched", "exhausted", "failed"}
      [] p = "rowFetched" -> {"tuBuilt", "failed"}
      [] p = "exhausted" -> {"bodyClosed", "failed"}
      [] p = "bodyClosed" -> {"return"}
      [] p = "return" -> {"resolved"}
      [] p = "failed" -> {"rethrow"}
      [] p = "rethrow" -> {"rejected"}
      [] OTHER -> {}

\* the blocks of one conversion: the header, tu blocks, the closing text
InDocumentOrder(kinds) ==
    \E n \in 0..Len(kinds) :
        \/ kinds = <<>>
        \/ kinds = <<"header">> \o Repeat(n, "tu")
        \/ kinds = <<"header">> \o Repeat(n, "tu") \o <<"closing">>

(* C1: one call of convert goes through its phases only in the order remove *)
(* existing output, open source, build header, write header, stream rows,   *)
(* write closing text, close source, done.  No step goes back, and the only *)
(* alternative to the next phase is failure: the source is opened only      *)
(* while nothing is written and no output file exists, every write happens  *)
(* while the source is open and keeps the order header, tu blocks, closing  *)
(* text, and the call resolves only after the source is closed.             *)
C1_PhasesInOrder ==
    [][ /\ pc' \in PhaseSuccessors(pc)
        /\ openSources' > openSources => writes = <<>> /\ ~file'.exists
        /\ writes' # writes /\ writes' # <<>> =>
              /\ db.name # Memory /\ db.open
              /\ InDocumentOrder(Kinds(writes'))
        /\ pc' = "resolved" =>
              /\ openSources' = 0
              /\ Kinds(writes')[Len(writes')] = "closing" ]_vars

C1_Witness == pc = "resolved" /\ Len(table) = 2 /\ calls = 1

(* C2: when convert succeeds on a table of N rows, the output file holds   *)
(* exactly one header block, then N tu blocks, then one closing text.      *)
C2_RowCountFidelity ==
    pc = "resolved" =>
        /\ tableDone
        /\ Kinds(file.content) = <<"header">> \o Repeat(Len(table), "tu") \o <<"closing">>

C2_Witness == pc = "resolved" /\ Len(table) = 2 /\ Len(file.content) = 4

(* C3: the count reported with Success is the number of tu blocks appended *)
(* in that conversion; count is incremented once per appended tu and never *)
(* otherwise.                                                              *)
C3_CountIsTuBlocks ==
    /\ count = Len(TuBlocks(writes))
    /\ pc = "resolved" =>
          result.status = SUCCESS /\ result.count = Len(TuBlocks(writes))

C3_Witness == pc = "resolved" /\ result.count = 2 /\ Len(TuBlocks(writes)) = 2

(* C4: the processing of row N+1 starts only after the tu of row N is in   *)
(* the output, and the k-th tu block of the output is the tu built from    *)
(* the k-th row the iterator delivered.                                    *)
C4_RowsInOrder ==
    OutputRemoved =>
        /\ pc \in {"rowFetched", "tuBuilt"} =>
              Len(TuBlocks(file.content)) = Len(table) - 1
        /\ \A k \in 1..Len(TuBlocks(file.content)) :
              /\ k <= Len(table)
              /\ TuBlocks(file.content)[k] = Block("tu", buildTu(table[k]).tu)

C4_Witness ==
    /\ pc = "rowFetched"
    /\ table = <<Row2, Row1>>
    /\ Len(TuBlocks(file.content)) = 1

\* the structural errors of a segment
NodeError(n) ==
    \/ n.name = "Text" /\ n.Value = Absent
    \/ /\ n.name = "Tag"
       /\ \/ n.Type = Absent
          \/ n.Type = "Start" /\ Absent \in {n.Anchor, n.AlignmentAnchor, n.TagID}
          \/ n.Type = "End" /\ n.Anchor = Absent
          \/ n.Type \notin {Absent, "Start", "End"} /\ Absent \in {n.AlignmentAnchor, n.TagID}

SegmentError(seg) ==
    \/ seg.form # "wellformed"
    \/ ~(Both \subseteq seg.children)
    \/ \E k \in DOMAIN seg.Elements : NodeError(seg.Elements[k])

StructuralError(row) ==
    SegmentError(row.source_segment) \/ SegmentError(row.target_segment)

(* C5: when a row has a structural segment error, convert fails as a whole *)
(* and nothing is appended for that row or any later one: the output holds *)
(* the header and the tu blocks of the rows before it, and no closing text.*)
C5_StructuralErrorFails ==
    \A k \in DOMAIN table :
        StructuralError(table[k]) =>
            /\ k = Len(table)
            /\ pc \in {"rowFetched", "failed", "rethrow", "rejected"}
            /\ Kinds(file.content) = <<"header">> \o Repeat(k - 1, "tu")
            /\ tu = <<>>
            /\ result.status # SUCCESS

C5_Witness ==
    /\ pc = "rejected"
    /\ Len(table) = 2
    /\ ~StructuralError(table[1])
    /\ StructuralError(table[2])
    /\ Len(file.content) = 2

(* C6: a call of convert ends in exactly one of two outcomes: Success with *)
(* the row count when nothing failed, or a rejection with the reason of    *)
(* the first failure.  Nothing is reported before the call ends.           *)
C6_OneOutcome ==
    /\ pc = "resolved" =>
          /\ result = [status |-> SUCCESS, count |-> count, reason |-> ""]
          /\ failure = <<>>
    /\ pc = "rejected" =>
          /\ failure # <<>>
          /\ result = [status |-> "rejected", count |-> 0, reason |-> failure[1]]
    /\ pc \notin {"resolved", "rejected"} => result = Pending

C6_Witness ==
    /\ pc = "rejected"
    /\ result.reason = "Text element without Value child"
    /\ count = 1

(* C9: once convert has settled, resolved or rejected, no connection to a  *)
(* source database is open and the handle is the in-memory one.            *)
C9_SourceClosed == Settled => openSources = 0 /\ db = MemoryDb

C9_Witness == pc = "rejected" /\ Kinds(writes) = <<"header", "tu">>

(* C10: when the translation_memories query returns no record, convert     *)
(* fails and nothing has been written to the output file.                  *)
C10_EmptyMemoriesFails ==
    tmRows.queried /\ tmRows.rows = <<>> =>
        /\ pc \in {"failed", "rethrow", "rejected"}
        /\ writes = <<>>
        /\ ~file.exists
        /\ pc = "rejected" => result.reason = "translation_memories table is empty"

C10_Witness == pc = "rejected" /\ tmRows.queried /\ tmRows.rows = <<>>

(* C11: when opening the source database fails, convert fails and nothing  *)
(* has been written to the output file in that conversion.                 *)
C11_OpenFailureWritesNothing ==
    failure # <<>> /\ failure[1] = OpenError =>
        /\ pc \in {"failed", "rethrow", "rejected"}
        /\ writes = <<>>
        /\ file = NoSuchFile
        /\ pc = "rejected" => result.reason = OpenError

C11_Witness == pc = "rejected" /\ result.reason = OpenError /\ existing # <<>>

(* C12: a successful conversion leaves at the output path exactly what it  *)
(* appended itself, one header, N tu blocks and one closing text, whatever *)
(* was at the path when it began, the output of an earlier successful      *)
(* conversion included.                                                    *)
C12_RerunOverwrites ==
    pc = "resolved" =>
        /\ file.content = writes
        /\ Len(file.content) = Len(table) + 2
        /\ Len(TuBlocks(file.content)) = Len(table)

C12_Witness ==
    /\ pc = "resolved"
    /\ calls = 2
    /\ existing = <<"header", "tu", "tu", "closing">>
    /\ Kinds(file.content) = existing

(* C14: the tu written for a row has no changedate attribute when the     *)
(* row's change_date is the empty string, and has changedate equal to the  *)
(* normalized change_date of the row when it is not empty.                 *)
C14_ChangeDateAttribute ==
    \A k \in 1..Len(TuBlocks(writes)) :
        LET attrs == TuBlocks(writes)[k].xml.attrs
            row == table[k]
        IN  IF row.change_date = EmptyString
            THEN "changedate" \notin DOMAIN attrs
            ELSE /\ "changedate" \in DOMAIN attrs
                 /\ attrs["changedate"] = tmxDateString(row.change_date)

---------------------------------------------------------------------------
(* Properties of the callback based revisions (specification SpecCb) *)

FromRows(r) == r.phase = "rows"

\* the callback has been handed an error by the row callback of parseDatabase
RowErrorReported == \E k \in DOMAIN cbCalls : FromRows(cbCalls[k])

(* C7: in revision 1.7.0, once the row callback has reported a fatal row   *)
(* error to the caller's callback, nothing more is appended to the output  *)
(* (no later tu, no closing text) and the callback is not invoked again.   *)
C7_AbortAfterRowError ==
    [][ cbRev = "1.7.0" /\ RowErrorReported =>
            cbFile' = cbFile /\ cbCalls' = cbCalls ]_vars

(* C8: in revisions 1.4.0 and 1.7.0, every failure that occurs while a row *)
(* is processed is handed to the caller's callback exactly once, with      *)
(* status Error and its reason; none leaves as an uncaught exception.      *)
C8_RowFailuresSurfaced ==
    LET reported == SelectSeq(cbCalls, FromRows)
    IN  /\ cbUncaught = 0
        /\ Len(reported) = Len(cbFailed)
        /\ \A k \in DOMAIN reported :
              reported[k].status = ERROR /\ reported[k].reason = cbFailed[k]

---------------------------------------------------------------------------
(* Properties of the date normalizer (specification SpecFn) *)

\* date has the form 'YYYY-MM-DD HH:MM:SS'
IsDateText(date) ==
    /\ Len(date) = Len(Date1)
    /\ date[5] = "-" /\ date[8] = "-"
    /\ date[11] = " "
    /\ date[14] = ":" /\ date[17] = ":"
    /\ \A k \in DOMAIN date \ {5, 8, 11, 14, 17} : date[k] \notin {"-", " ", ":"}

(* C13: tmxDateString applied to the empty string returns the empty string. *)
C13_EmptyDateStaysEmpty ==
    fnPc = "dated" /\ fnArg = EmptyString => fnOut[1] = EmptyString

(* C15: for a date d of the form 'YYYY-MM-DD HH:MM:SS', normalizing the    *)
(* normalized date changes nothing:                                        *)
(* tmxDateString(tmxDateString(d)) = tmxDateString(d).                     *)
C15_NormalizeIdempotent ==
    fnPc = "redated" /\ IsDateText(fnArg) => fnOut[2] = fnOut[1]

(* C16: for a date of the form 'YYYY-MM-DD HH:MM:SS', tmxDateString returns *)
(* 'YYYYMMDDTHHMMSSZ': the digits unchanged and in the same order, the two  *)
(* '-' and the two ':' removed, the space replaced by 'T', 'Z' appended.    *)
C16_CompactTimestamp ==
    fnPc \in {"dated", "redated"} /\ IsDateText(fnArg) =>
        fnOut[1] = SubSeq(fnArg, 1, 4) \o SubSeq(fnArg, 6, 7) \o SubSeq(fnArg, 9, 10)
                   \o <<"T">> \o SubSeq(fnArg, 12, 13) \o SubSeq(fnArg, 15, 16)
                   \o SubSeq(fnArg, 18, 19) \o <<"Z">>

C16_Witness ==
    /\ fnPc = "dated"
    /\ fnArg = Date1
    /\ fnOut[1] = <<"2","0","2","3","0","5","0","1","T","1","0","2","0","3","0","Z">>


---------------------------------------------------------------------------
(* Properties of the inline-content mapper (specification SpecFn) *)

\* what one child of the container stands for in the seg
Image(n) ==
    CASE n.name = "Text" -> <<TextNode(n.Value)>>
      [] n.name = "Tag" /\ n.Type = "Start" ->
            <<Elem("bpt", [i |-> n.Anchor, x |-> n.AlignmentAnchor, type |-> n.TagID], <<>>)>>
      [] n.name = "Tag" /\ n.Type = "End" -> <<Elem("ept", [i |-> n.Anchor], <<>>)>>
      [] n.name = "Tag" /\ n.Type \notin {"Start", "End"} ->
            <<Elem("ph", [x |-> n.AlignmentAnchor, type |-> n.TagID], <<>>)>>
      [] OTHER -> <<>>

\* the reference mapping: the images of the children, in the order of the children
RECURSIVE Reference(_)
Reference(nodes) ==
    IF nodes = <<>> THEN <<>> ELSE Image(Head(nodes)) \o Reference(Tail(nodes))

WellFormedContainer(nodes) == \A k \in DOMAIN nodes : ~NodeError(nodes[k])

(* C17: on every Elements container without a structural error the result *)
(* of parseContent is the in-order image of its Text and Tag children:     *)
(* Text gives its Value text, a Start tag bpt(i, x, type), an End tag      *)
(* ept(i), and every other child nothing.                                  *)
C17_ReferenceMapping ==
    fnPc = "mapped" /\ WellFormedContainer(fnArg) =>
        /\ fnOut.ok
        /\ fnOut.content = Reference(fnArg)

C17_Witness ==
    /\ fnPc = "mapped"
    /\ fnArg = <<TextEl("Hello "), TagEl("Start", "1", "10", "100"), TextEl("world"),
                 TagEl("End", "1", Absent, Absent)>>
    /\ fnOut.content = <<TextNode("Hello "),
                         Elem("bpt", [i |-> "1", x |-> "10", type |-> "100"], <<>>),
                         TextNode("world"),
                         Elem("ept", [i |-> "1"], <<>>)>>

\* a Tag whose Type is neither Start nor End, with AlignmentAnchor and TagID
Standalone(n) ==
    /\ n.name = "Tag"
    /\ n.Type \notin {Absent, "Start", "End"}
    /\ n.AlignmentAnchor # Absent
    /\ n.TagID # Absent

\* the children up to the k-th that are Text or Tag elements
MappedUpTo(nodes, k) == {j \in 1..k : nodes[j].name \in {"Text", "Tag"}}

(* C18: a Tag whose Type is neither Start nor End and that has             *)
(* AlignmentAnchor and TagID gives exactly one ph with x = AlignmentAnchor *)
(* and type = TagID and no i, whether or not it has an Anchor; no bpt or   *)
(* ept comes with it.                                                      *)
C18_StandalonePlaceholder ==
    fnPc = "mapped" /\ WellFormedContainer(fnArg) =>
        /\ fnOut.ok
        /\ Len(fnOut.content) = Cardinality(MappedUpTo(fnArg, Len(fnArg)))
        /\ \A k \in DOMAIN fnArg :
              Standalone(fnArg[k]) =>
                 fnOut.content[Cardinality(MappedUpTo(fnArg, k))] =
                    Elem("ph", [x |-> fnArg[k].AlignmentAnchor, type |-> fnArg[k].TagID], <<>>)

C18_Witness ==
    /\ fnPc = "mapped"
    /\ fnArg = <<TagEl("Standalone", Absent, "5", "200"), TagEl("", "7", "5", "200")>>
    /\ Len(fnOut.content) = 2


---------------------------------------------------------------------------
(* Properties of the header properties (specification SpecFn) *)

NotEmpty(piece) == piece # ""

\* a string given by its pieces: empty pieces add nothing
StringOf(pieces) == SelectSeq(pieces, NotEmpty)

\* XMLElement.getText(): the text of the text nodes, concatenated
GetText(el) == StringOf([k \in DOMAIN el.content |-> el.content[k].text])

\* values.join(',')
RECURSIVE Join(_)
Join(values) ==
    IF Len(values) <= 1 THEN values
    ELSE <<Head(values), ",">> \o Join(Tail(values))

\* the values of the type 5 rows of a name, in query order
RECURSIVE ValuesOf(_, _)
ValuesOf(rows, name) ==
    IF rows = <<>> THEN <<>>
    ELSE (IF Head(rows).type = 5 /\ Head(rows).name = name THEN <<Head(rows).value>> ELSE <<>>)
         \o ValuesOf(Tail(rows), name)

IsSeparator(node) == node.text = ","

\* the props of the header whose type is that of name
PropsOf(h, name) == {k \in DOMAIN h.content : h.content[k].attrs.type = PropType(name)}

(* C19: the text of the prop built for a name is the comma-joined list of  *)
(* the values of that name's type 5 rows in query order: k values give     *)
(* k-1 separators and none before the first value, also when a value is    *)
(* the empty string.                                                       *)
C19_CommaJoinedValues ==
    fnPc = "props" =>
        \A n \in DOMAIN AttrNames :
            LET values == ValuesOf(fnArg, AttrNames[n])
            IN  values # <<>> =>
                  \A k \in PropsOf(fnOut, AttrNames[n]) :
                      /\ GetText(fnOut.content[k]) = StringOf(Join(values))
                      /\ Len(SelectSeq(fnOut.content[k].content, IsSeparator)) = Len(values) - 1

\* the names of the type 5 rows, each where it is first seen
RECURSIVE FirstSeen(_, _)
FirstSeen(rows, seen) ==
    IF rows = <<>> THEN <<>>
    ELSE IF Head(rows).type = 5 /\ Head(rows).name \notin seen
         THEN <<Head(rows).name>> \o FirstSeen(Tail(rows), seen \cup {Head(rows).name})
         ELSE FirstSeen(Tail(rows), seen)

(* C20: the header receives exactly one prop per distinct name that occurs *)
(* in a row of type 5 and none for a name that occurs only with another    *)
(* type; the props are in the order in which their names are first seen,   *)
(* each with type 'x-<name>:MultplePicklist'.                              *)
C20_OnePropPerName ==
    fnPc = "props" =>
        LET names == FirstSeen(fnArg, {})
        IN  /\ Len(fnOut.content) = Len(names)
            /\ \A k \in DOMAIN names :
                  /\ fnOut.content[k].name = "prop"
                  /\ fnOut.content[k].attrs = [type |-> <<"x-", names[k], ":MultplePicklist">>]

C20_Witness ==
    /\ fnPc = "props"
    /\ fnArg = <<AttributeRow("Client", 1, "v1"), AttributeRow("Status", 5, "v1"),
                 AttributeRow("Status", 5, "v2")>>
    /\ Len(fnOut.content) = 1


---------------------------------------------------------------------------
(* Properties of the tu built for a row (specification SpecFn).  The tu    *)
(* that is built is the tu that is appended to the output.                 *)

(* C21: the tu of a row has no usagecount attribute when usage_counter is  *)
(* '0', empty or absent, and has usagecount equal to usage_counter,        *)
(* verbatim, for every other value.                                        *)
C21_UsageCount ==
    fnPc = "built" /\ fnOut.ok =>
        IF fnArg.usage_counter \in {"0", "", NullText}
        THEN "usagecount" \notin DOMAIN fnOut.tu.attrs
        ELSE /\ "usagecount" \in DOMAIN fnOut.tu.attrs
             /\ fnOut.tu.attrs["usagecount"] = fnArg.usage_counter

C21_Witness ==
    /\ fnPc = "built"
    /\ fnOut.ok
    /\ fnArg.usage_counter = "007"
    /\ fnOut.tu.attrs["usagecount"] = "007"

NoText(value) == value \in {"", NullText}
NoDate(value) == value \in {EmptyString, NullDate}
IsProp(node) == node.name = "prop"
IsTuv(node) == node.name = "tuv"

(* C22: a row whose optional columns carry no value is still converted     *)
(* into a tu, and the tu has no changedate, changeid, lastusagedate,       *)
(* usagecount or x-LastUsedBy prop for a column without a value.           *)
C22_OptionalColumns ==
    fnPc = "built" =>
        /\ fnOut.ok
        /\ NoDate(fnArg.change_date) => "changedate" \notin DOMAIN fnOut.tu.attrs
        /\ NoText(fnArg.change_user) => "changeid" \notin DOMAIN fnOut.tu.attrs
        /\ NoDate(fnArg.last_used_date) => "lastusagedate" \notin DOMAIN fnOut.tu.attrs
        /\ NoText(fnArg.usage_counter) => "usagecount" \notin DOMAIN fnOut.tu.attrs
        /\ NoText(fnArg.last_used_user) => SelectSeq(fnOut.tu.content, IsProp) = <<>>

\* the tuv of a segment: its language and the reference image of its content
TuvOf(segment) ==
    Elem("tuv", "xml:lang" :> segment.CultureName,
         <<Elem("seg", NoAttrs, Reference(validXml10Chars(segment).Elements))>>)

(* C24: a tu has exactly two tuv children, the first built from the source *)
(* segment and the second from the target segment, each with xml:lang      *)
(* equal to the CultureName of its segment; when the row has a last-used   *)
(* user, exactly one prop of type x-LastUsedBy holding that user is a      *)
(* child of the tu, before both tuv.                                       *)
C24_TuChildren ==
    fnPc = "built" /\ fnOut.ok =>
        LET tuvs == <<TuvOf(fnArg.source_segment), TuvOf(fnArg.target_segment)>>
            prop == Elem("prop", [type |-> <<"x-LastUsedBy">>],
                         <<TextNode(fnArg.last_used_user)>>)
        IN  /\ SelectSeq(fnOut.tu.content, IsTuv) = tuvs
            /\ fnOut.tu.content = IF fnArg.last_used_user # ""
                                  THEN <<prop>> \o tuvs ELSE tuvs

C24_Witness ==
    /\ fnPc = "built"
    /\ fnOut.ok
    /\ fnArg.last_used_user = "carol"
    /\ fnArg.source_segment = GoodTarget
    /\ Len(fnOut.tu.content) = 3
    /\ fnOut.tu.content[2].attrs["xml:lang"] = "fr-FR"


---------------------------------------------------------------------------
(* Properties of the constructor (specification SpecFn) *)

\* a name or version is supplied: it is given and it is not the empty string
Supplied(value) == value \notin {Absent, NullText, ""}

\* the value to use: the option when supplied, else that of the package metadata
Configured(option, packaged) == IF Supplied(option) THEN option ELSE packaged

(* C23: the constructor uses the product name and the version of the       *)
(* options when they are supplied, falls back to the package metadata for  *)
(* each one that is not, and fails only when neither supplies the value.   *)
C23_ConfigurationFallback ==
    fnPc = "constructed" =>
        LET name == Configured(fnArg.options.productName, fnArg.metadata.name)
            version == Configured(fnArg.options.version, fnArg.metadata.version)
        IN  /\ fnOut.ok = (Supplied(name) /\ Supplied(version))
            /\ fnOut.ok => fnOut.productName = name /\ fnOut.version = version


---------------------------------------------------------------------------
(* Properties of the output file and of reader reuse (specification Spec) *)

IsPrefix(a, b) == Len(a) <= Len(b) /\ SubSeq(b, 1, Len(a)) = a

\* the tu of the k-th row read in this call
TuOfRow(k) == buildTu(table[k]).tu

(* C25: within one conversion the output file only grows by appending.     *)
(* Every step leaves the content it found as a prefix of the content it    *)
(* leaves, adds at most one block, and adds a tu only as the tu of the row *)
(* just read, behind the tu of every earlier row: each row's tu is         *)
(* appended once and no earlier output is rewritten or removed.            *)
C25_AppendOnly ==
    [][calls' = calls =>
        /\ file.exists => file'.exists
        /\ IsPrefix(file.content, file'.content)
        /\ Len(file'.content) <= Len(file.content) + 1
        /\ file'.content # file.content =>
              /\ file'.content = Append(file.content, writes'[Len(writes')])
              /\ writes' = Append(writes, writes'[Len(writes')])
        /\ TuBlocks(file'.content) # TuBlocks(file.content) =>
              /\ pc = "tuBuilt"
              /\ Len(TuBlocks(file.content)) = Len(table) - 1
              /\ file'.content = Append(file.content, Block("tu", TuOfRow(Len(table))))]_vars

C25_Witness ==
    /\ pc = "exhausted"
    /\ Len(table) = 2
    /\ TuBlocks(file.content) = <<Block("tu", TuOfRow(1)), Block("tu", TuOfRow(2))>>

(* C26: when convert fails after the header has been written, the output   *)
(* file stays as it was at the failure until the promise is rejected and   *)
(* after: the header block, then the tu blocks of the rows before the one  *)
(* that failed, no closing text; it is neither deleted nor truncated.      *)
C26_PartialOutputKept ==
    pc \in {"failed", "rethrow", "rejected"} /\ writes # <<>> =>
        /\ file.exists
        /\ file.content = writes
        /\ Kinds(file.content) = <<"header">> \o Repeat(count, "tu")
        /\ count \in {Len(table) - 1, Len(table)}
        /\ \A k \in 1..count : file.content[k + 1] = Block("tu", TuOfRow(k))

C26_Witness ==
    /\ pc = "rejected"
    /\ Len(table) = 2
    /\ count = 1
    /\ ~buildTu(table[2]).ok
    /\ file.content = <<writes[1], Block("tu", TuOfRow(1))>>

(* C28: a reader can be reused.  The header a conversion writes is the     *)
(* header of the reader's configuration with the attributes and props of   *)
(* the query results of that conversion, whatever earlier conversions on   *)
(* the reader, successful or failed, put into their headers.               *)
C28_HeaderOfThisConversion ==
    calls > 0 /\ writes # <<>> =>
        writes[1] = Block("header",
                          applyHeaderProperties(
                              applyHeaderAttributes(createHeader, tmRows.rows).header,
                              tmRows.attributes))

C28_Witness ==
    /\ calls = 2
    /\ existing # <<>>
    /\ existing[1] = "header"
    /\ writes # <<>>
    /\ tmRows.attributes = <<>>
    /\ writes[1].xml.content = <<>>

(* C29: two convert calls on one reader never interleave.  A call begins   *)
(* only when no call is in progress, the body of the previous one having   *)
(* run to its end, and it begins with an empty record of writes: at every  *)
(* moment the output holds the writes of the call in progress only.        *)
C29_CallsDoNotInterleave ==
    [][calls' # calls =>
        /\ pc \in {"idle", "resolved", "rejected"}
        /\ db = MemoryDb
        /\ pc' \in {"prepared", "rejected"}
        /\ writes' = <<>>]_vars

C29_Witness ==
    /\ calls = 2
    /\ pc = "tuBuilt"
    /\ existing = <<"header", "tu", "closing">>
    /\ file.content = writes

\* the failures of source-open and of the metadata queries
EarlyFailures ==
    { OpenError, "no such table: translation_memories",
      "translation_memories table is empty", "no such table: attributes" }

(* C30: convert removes the file at the output path before it opens the    *)
(* source: when the conversion fails at source-open or at a metadata       *)
(* query, no file exists at the output path, whatever was there before.    *)
C30_PreviousOutputLost ==
    pc = "rejected" /\ result.reason \in EarlyFailures =>
        /\ ~file.exists
        /\ file = NoSuchFile

C30_Witness ==
    /\ pc = "rejected"
    /\ existing = <<"stale">>
    /\ result.reason = "translation_memories table is empty"
    /\ ~file.exists


===========================================================================
